---- MODULE Spec2Model ----
(***************************************************************************)
(* Model of the Streamlit chat front-end (src/app.py) and of its helpers   *)
(* (src/utils.py): one browser session, the remote assistant service it    *)
(* talks to, and the polling loop of send_message.                         *)
(*                                                                         *)
(* Time is counted in ticks of half a second (the argument of time.sleep). *)
(* The remote service is the environment: every remote call may fail, and  *)
(* runs advance on their own between two calls of the client. It accepts a *)
(* message and a run on a thread whatever the state of the thread's        *)
(* earlier runs. The API key is taken to be set (init_openai_client        *)
(* returns a client).                                                      *)
(***************************************************************************)
EXTENDS Integers, Sequences, FiniteSets, TLC

\* ---------------------------------------------------------------- bounds
MaxSends == 2          \* user messages that reach send_message in one behaviour
MaxThreads == 2        \* threads the remote service creates in one behaviour
SlowPollTicks == 29    \* how long a slow runs.retrieve call takes, in ticks
MaxRawLen == 2         \* longest raw message list given to the conversion alone

\* ------------------------------------------------------ program constants
timeout == 30          \* utils.py:76, seconds
TicksPerSecond == 2    \* utils.py:94, time.sleep(0.5): one tick is 0.5 s
SleepTicks == 1        \* utils.py:94, the sleep between two polls, in ticks
EmptyHandle == 0       \* utils.py:54, the "" that create_thread returns on failure

TimeoutTicks == timeout * TicksPerSecond

assistant_options == [Assistant1 |-> "ASSISTANT_ID", Assistant2 |-> "ASSISTANT_ID2"]
EnvNames == {assistant_options.Assistant1, assistant_options.Assistant2}

apology == "I'm sorry, I encountered an error while processing your request. This might happen when retrieving information from my knowledge base. Could you try rephrasing your question or asking something else?"

\* ------------------------------------------------------------ environment
Texts == {"Hello"}                           \* what the user may type (never empty)
Replies == {"Hi there!"}                     \* what a run may answer
AssistantIdOf == [ASSISTANT_ID |-> "asst_1", ASSISTANT_ID2 |-> "asst_2"]
RemoteErrors == {"APIConnectionError", "APIStatusError"}
Exceptions == RemoteErrors \cup {"AttributeError"}
PollTicks == {SlowPollTicks}                 \* every poll is slow
AnyPollTicks == {0, SlowPollTicks}           \* a poll answers at once or slowly

NonTerminal == {"queued", "in_progress"}
FailStatuses == {"failed", "cancelled", "expired"}
KnownStatuses == {"completed"} \cup FailStatuses \cup NonTerminal
UnknownStatuses == {"requires_action"}
RunOutcomes == {"completed"} \cup FailStatuses \cup UnknownStatuses

VARIABLES
    thread_id,           \* st.session_state.thread_id
    messages,            \* st.session_state.messages, the displayed transcript
    selected_assistant,  \* st.session_state.selected_assistant
    environ,             \* os.environ restricted to the assistant mappings
    threads,             \* remote: threads[t] is the message list of thread t
    runs,                \* remote: runs[r] = [thread_id, assistant_id, status]
    pc,                  \* where the session's script is
    user_message,        \* the text submitted in the current pass
    run,                 \* send_message's local run (its id), 0 before createRun
    status,              \* run.status as last retrieved, "none" before a poll
    elapsed,             \* time.time() - start_time, in ticks
    calls,               \* the remote calls made by the current send_message
    listing,             \* what messages.list returned to the current call
    ret,                 \* send_message's return value
    error,               \* the st.error send_message showed: its text and the
                         \* value put into it; NoError if none
    exc,                 \* the exception caught at utils.py:112, "none" if none
    before,              \* the displayed transcript when the pass started
    assistant_details,   \* main's assistant_details of the current pass and the
                         \* st.error get_assistant_details showed with it
    pass_calls,          \* the remote calls the current pass made outside
                         \* send_message
    sends                \* user messages that reached send_message so far

vars == <<thread_id, messages, selected_assistant, environ, threads, runs, pc,
          user_message, run, status, elapsed, calls, listing, ret, error, exc,
          before, assistant_details, pass_calls, sends>>

session == <<thread_id, messages, selected_assistant>>
remote == <<threads, runs>>
frame == <<user_message, run, status, elapsed, calls, listing, ret, error, exc, before>>
loading == <<assistant_details, pass_calls>>

\* ------------------------------------------------------------ pure helpers
TextBlock(s) == [type |-> "text", text |-> [value |-> s]]
RawMessage(role, s) == [role |-> role, content |-> <<TextBlock(s)>>]
Message(role, s) == [role |-> role, content |-> s]

\* a content block that is no text block: it has no attribute `text`
ImageBlock == [type |-> "image_file", image_file |-> [file_id |-> "file_1"]]

\* utils.py:107: msg.content[0].text raises AttributeError when the first
\* block of a message is no text block
ProjectRaises(raw) ==
    \E i \in DOMAIN raw : raw[i].content # <<>> /\ raw[i].content[1].type # "text"

\* utils.py:103-108, the conversion of the raw message list
project(raw) ==
    [i \in 1..Len(raw) |->
        [role |-> raw[i].role,
         content |-> IF raw[i].content # <<>> THEN raw[i].content[1].text.value ELSE ""]]

\* handle_assistant_error without line 114: the user message is not recorded
handle_assistant_error_NoEcho(msgs, text) ==
    msgs \o <<[role |-> "assistant", content |-> apology]>>

\* app.py:113-123: the user message, then the fixed apology, at the end
handle_assistant_error(msgs, text) ==
    msgs \o <<Message("user", text), Message("assistant", apology)>>

\* the error kind that each st.error text of send_message stands for
ErrorKind(e) ==
    CASE e.text = "Request timed out" -> "Timeout"
      [] e.text = "Run failed with status" -> "RunFailed"
      [] e.text = "Unexpected run status" -> "RemoteUnavailable"
      [] e.text = "Error in chat interaction" -> "RemoteUnavailable"
      [] OTHER -> "none"

\* a handler that names one error class only
Catches_OneClass(e) == e = "APIConnectionError"

\* utils.py:112, `except Exception`: every error of the client library is caught
Catches(e) == e \in Exceptions

\* the guard without its test of the thread handle
MaySend_NoHandleTest(text, tid) == text # ""

\* app.py:183, the guard of the call of send_message
MaySend(text, tid) == text # "" /\ tid # EmptyHandle

\* app.py:190, the caller's test of send_message's result
IsSuccess(r) == r # <<>>

\* the caller appends the returned transcript to its own
Adopt_Append(old, r) == old \o r

\* app.py:191, the caller takes the returned transcript as its own
Adopt(old, r) == r

\* a loop without the deadline test
DeadlinePassed_Never(t) == FALSE

\* the deadline test with >= for >
DeadlinePassed_AtDeadline(t) == t >= TimeoutTicks

\* utils.py:79, the deadline test at the top of the loop
DeadlinePassed(t) == t > TimeoutTicks

\* st.error(f"...{x}"): the fixed text and the value put into it
StError(text, arg) == [text |-> text, arg |-> arg]
NoError == StError("none", "")

\* runs.retrieve calls made by the current send_message
Polls == Cardinality({i \in DOMAIN calls : calls[i] = "getRun"})

\* ------------------------------------------------------------------- Init
NoFrame ==
    /\ user_message = ""
    /\ run = 0
    /\ status = "none"
    /\ elapsed = 0
    /\ calls = <<>>
    /\ listing = <<>>
    /\ ret = <<>>
    /\ error = NoError
    /\ exc = "none"
    /\ before = <<>>

ResetFrame ==
    /\ user_message' = ""
    /\ run' = 0
    /\ status' = "none"
    /\ elapsed' = 0
    /\ calls' = <<>>
    /\ listing' = <<>>
    /\ ret' = <<>>
    /\ error' = NoError
    /\ exc' = "none"
    /\ before' = <<>>

Init ==
    /\ pc = "new"
    /\ thread_id = EmptyHandle
    /\ messages = <<>>
    /\ selected_assistant = assistant_options.Assistant1
    /\ environ \in {e \in [EnvNames -> {"None", "asst_1", "asst_2"}] :
                      \A n \in EnvNames : e[n] \in {"None", AssistantIdOf[n]}}
    /\ threads = <<>>
    /\ runs = <<>>
    /\ sends = 0
    /\ assistant_details = [details |-> "None", error |-> "none"]
    /\ pass_calls = <<>>
    /\ NoFrame

\* ------------------------------------------------------ utils.py helpers
\* create_thread that hands out the session's handle again once there is one
create_thread_Cached(ok) ==
    IF ~ok THEN EmptyHandle
    ELSE IF thread_id # EmptyHandle THEN thread_id
    ELSE Len(threads) + 1

\* utils.py:46-54: the new thread's id, or "" when threads.create raised
create_thread(ok) == IF ok THEN Len(threads) + 1 ELSE EmptyHandle

\* the remote side of create_thread: a thread exists only if the call succeeded
ThreadsAfterCreate(ok) == IF ok THEN Append(threads, <<>>) ELSE threads

\* get_assistant_details without the test of lines 31-34
HasMapping_Unchecked(name) == TRUE

\* utils.py:29-34: assistants.retrieve is called only with a configured id
HasMapping(name) == environ[name] # "None"

\* utils.py:27-44: the descriptor (named by the assistant's id) or None, and
\* the st.error shown with None
get_assistant_details(name, remoteOk) ==
    IF ~HasMapping(name)
      THEN [details |-> "None", error |-> "Assistant ID not found"]
    ELSE IF remoteOk /\ environ[name] # "None"    \* no descriptor without an id
      THEN [details |-> environ[name], error |-> "none"]
    ELSE [details |-> "None", error |-> "Error getting assistant details"]

\* utils.py:36: the remote call that get_assistant_details makes
LoadCalls(name) == IF HasMapping(name) THEN <<"getAssistant">> ELSE <<>>

\* the error kind that each st.error text of get_assistant_details stands for
LoadErrorKind(d) ==
    CASE d.error = "Assistant ID not found" -> "ConfigMissing"
      [] d.error = "Error getting assistant details" -> "RemoteUnavailable"
      [] OTHER -> "none"

\* main without the return of line 156
Halted_Never(d) == FALSE

\* app.py:154-156: the pass ends when no descriptor was returned
Halted(d) == d.details = "None"

\* runs.create with the default assistant whatever the selection
RunAssistant_Default == environ[assistant_options.Assistant1]

\* utils.py:71: the assistant a new run is bound to
RunAssistant == environ[selected_assistant]

\* utils.py:112-114: the handler of send_message's try block
except_Exception(e) ==
    /\ exc' = e
    /\ IF Catches(e)
         THEN /\ error' = StError("Error in chat interaction", e)
              /\ ret' = <<>>
              /\ pc' = "returned"
         ELSE /\ error' = error
              /\ ret' = ret
              /\ pc' = "raised"

\* ------------------------------------------------------- session passes
\* app.py:20-30, the first pass of a session
initialize_session_state(ok, loadOk) ==
    /\ pc = "new"
    /\ ok => Len(threads) < MaxThreads
    /\ thread_id' = create_thread(ok)
    /\ threads' = ThreadsAfterCreate(ok)
    /\ messages' = <<>>
    /\ selected_assistant' = assistant_options.Assistant1
    /\ assistant_details' = get_assistant_details(selected_assistant', loadOk)
    /\ pass_calls' = <<"createThread">> \o LoadCalls(selected_assistant')
    /\ pc' = "idle"
    /\ UNCHANGED <<environ, runs, sends, frame>>

\* app.py:145-156, a pass started by a change of the select box
SelectAssistant(name, loadOk) ==
    /\ pc = "idle"
    /\ name # selected_assistant
    /\ selected_assistant' = name
    /\ assistant_details' = get_assistant_details(name, loadOk)
    /\ pass_calls' = LoadCalls(name)
    /\ ResetFrame
    /\ UNCHANGED <<thread_id, messages, environ, remote, pc, sends>>

\* app.py:149-189, a pass started by the chat input: the message reaches
\* send_message only if the assistant loaded and the guard of line 183 holds
SubmitMessage(text, loadOk) ==
    /\ pc = "idle"
    /\ sends < MaxSends
    /\ user_message' = text
    /\ before' = messages
    /\ run' = 0 /\ status' = "none" /\ elapsed' = 0 /\ calls' = <<>>
    /\ listing' = <<>> /\ ret' = <<>> /\ error' = NoError /\ exc' = "none"
    /\ assistant_details' = get_assistant_details(selected_assistant, loadOk)
    /\ pass_calls' = LoadCalls(selected_assistant)
    /\ IF ~Halted(assistant_details') /\ MaySend(text, thread_id)
         THEN pc' = "append" /\ sends' = sends + 1
         ELSE pc' = "idle" /\ sends' = sends
    /\ UNCHANGED <<session, environ, remote>>

\* app.py:58-63, the Clear Chat button (shown only while there are messages)
ClearChat(loadOk, ok) ==
    /\ pc = "idle"
    /\ messages # <<>>
    /\ Len(threads) < MaxThreads
    /\ assistant_details' = get_assistant_details(selected_assistant, loadOk)
    /\ IF Halted(assistant_details')
         THEN /\ pass_calls' = LoadCalls(selected_assistant)
              /\ UNCHANGED <<messages, thread_id, threads, pc>>
         ELSE /\ pass_calls' = LoadCalls(selected_assistant) \o <<"createThread">>
              /\ messages' = <<>>
              /\ thread_id' = create_thread(ok)
              /\ threads' = ThreadsAfterCreate(ok)
              /\ pc' = "rerun"
    /\ ResetFrame
    /\ UNCHANGED <<selected_assistant, environ, runs, sends>>

\* st.rerun(): the script starts over with no event
Rerun(loadOk) ==
    /\ pc = "rerun"
    /\ pc' = "idle"
    /\ assistant_details' = get_assistant_details(selected_assistant, loadOk)
    /\ pass_calls' = LoadCalls(selected_assistant)
    /\ ResetFrame
    /\ UNCHANGED <<session, environ, remote, sends>>

\* ------------------------------------------------- send_message, by steps
\* utils.py:62-66
AppendMessage(outcome) ==
    /\ pc = "append"
    /\ calls' = Append(calls, "appendMessage")
    /\ IF outcome = "ok"
         THEN /\ threads' = [threads EXCEPT ![thread_id] =
                                Append(@, RawMessage("user", user_message))]
              /\ pc' = "createRun"
              /\ UNCHANGED <<ret, error, exc>>
         ELSE /\ except_Exception(outcome)
              /\ UNCHANGED threads
    /\ UNCHANGED <<session, environ, runs, sends, user_message, run, status,
                   elapsed, listing, before, loading>>

\* utils.py:69-76: the run starts queued, the clock of the loop starts
CreateRun(outcome) ==
    /\ pc = "createRun"
    /\ IF outcome = "ok"
         THEN /\ runs' = Append(runs, [thread_id |-> thread_id,
                                       assistant_id |-> RunAssistant,
                                       status |-> "queued"])
              /\ run' = Len(runs) + 1
              /\ pc' = "poll"
              /\ UNCHANGED <<ret, error, exc>>
         ELSE /\ except_Exception(outcome)
              /\ UNCHANGED <<runs, run>>
    /\ elapsed' = 0
    /\ calls' = Append(calls, "createRun")
    /\ UNCHANGED <<session, environ, threads, sends, user_message, status,
                   listing, before, loading>>

\* a timeout branch that cancels the run before it returns
AfterTimeout_Cancel(rs) ==
    [rs EXCEPT ![run].status = IF @ \in NonTerminal THEN "cancelled" ELSE @]

\* utils.py:79-81: the timeout branch makes no remote call, the runs stay
\* as they are
AfterTimeout(rs) == rs

\* utils.py:79-81
TimedOut ==
    /\ pc = "poll"
    /\ DeadlinePassed(elapsed)
    /\ error' = StError("Request timed out", "")
    /\ ret' = <<>>
    /\ pc' = "returned"
    /\ runs' = AfterTimeout(runs)
    /\ UNCHANGED <<session, environ, threads, sends, user_message, run, status,
                   elapsed, calls, listing, exc, before, loading>>

\* the branch with the last else missing: an unknown status is polled again
AfterStatus_PollUnknown(s) ==
    IF s = "completed" THEN "list"
    ELSE IF s \in FailStatuses THEN "returned"
    ELSE "poll"

\* a loop left by break on every status that ends the run
AfterStatus_ListOnFailed(s) ==
    IF s \in NonTerminal THEN "poll"
    ELSE IF s \in FailStatuses \cup {"completed"} THEN "list"
    ELSE "returned"

\* utils.py:88-97, the branch taken on the retrieved status s
AfterStatus(s) ==
    IF s = "completed" THEN "list"
    ELSE IF s \in NonTerminal THEN "poll"
    ELSE "returned"

\* the list of line 90 without "expired"
StatusError_NoExpired(s) ==
    IF s \in FailStatuses \ {"expired"} THEN StError("Run failed with status", s)
    ELSE IF s \in NonTerminal \cup {"completed"} THEN error
    ELSE StError("Unexpected run status", s)

\* utils.py:91 and 96, the st.error of the two failing branches
StatusError(s) ==
    IF s \in FailStatuses THEN StError("Run failed with status", s)
    ELSE IF s \in NonTerminal \cup {"completed"} THEN error
    ELSE StError("Unexpected run status", s)

\* utils.py:94: only a non-terminal status is followed by the sleep
SleepAfter(s) == IF s \in NonTerminal THEN SleepTicks ELSE 0

\* utils.py:83-97: one poll, which takes d ticks to answer
Retrieve(d, outcome) ==
    /\ pc = "poll"
    /\ ~DeadlinePassed(elapsed)
    /\ calls' = Append(calls, "getRun")
    /\ IF outcome = "ok"
         THEN /\ status' = runs[run].status
              /\ elapsed' = elapsed + d + SleepAfter(status')
              /\ pc' = AfterStatus(status')
              /\ error' = StatusError(status')
              /\ ret' = <<>>
              /\ UNCHANGED exc
         ELSE /\ except_Exception(outcome)
              /\ UNCHANGED <<status, elapsed>>
    /\ UNCHANGED <<session, environ, remote, sends, user_message, run, listing,
                   before, loading>>

\* utils.py:100-110
ListMessages(outcome) ==
    /\ pc = "list"
    /\ calls' = Append(calls, "listMessages")
    /\ IF outcome = "ok"
         THEN /\ listing' = threads[thread_id]
              /\ IF ProjectRaises(listing')
                   THEN except_Exception("AttributeError")
                   ELSE /\ ret' = project(listing')
                        /\ pc' = "returned"
                        /\ UNCHANGED <<error, exc>>
         ELSE /\ except_Exception(outcome)
              /\ UNCHANGED listing
    /\ UNCHANGED <<session, environ, remote, sends, user_message, run, status,
                   elapsed, before, loading>>

\* a caller that calls send_message again when it failed
AfterHandle_Retry(r) == IF IsSuccess(r) THEN "rerun" ELSE "append"

\* app.py:192, 198 and 204: every branch ends the pass with st.rerun()
AfterHandle(r) == "rerun"

\* app.py:190-204: the caller's handling of the result, then st.rerun().
\* st.rerun() ends the pass by a script-control exception that is no
\* Exception, so the handler of line 199 runs only for an error that left
\* send_message (pc = "raised").
MainHandle ==
    /\ pc \in {"returned", "raised"}
    /\ messages' = IF pc = "returned" /\ IsSuccess(ret)
                     THEN Adopt(messages, ret)
                     ELSE handle_assistant_error(messages, user_message)
    /\ pc' = AfterHandle(ret)
    /\ UNCHANGED <<thread_id, selected_assistant, environ, remote, sends, frame,
                   loading>>

\* ------------------------------------------------------ the remote service
\* what a run adds to its thread when it reaches status s
RunEffect(r, s) ==
    IF s = "completed"
      THEN \E text \in Replies :
             threads' = [threads EXCEPT ![runs[r].thread_id] =
                            Append(@, RawMessage("assistant", text))]
      ELSE threads' = threads

RunAdvance(r, s) ==
    /\ \/ runs[r].status = "queued" /\ s = "in_progress"
       \/ runs[r].status \in NonTerminal /\ s \in RunOutcomes
       \/ runs[r].status \in UnknownStatuses /\ s = "expired"
    /\ runs' = [runs EXCEPT ![r].status = s]
    /\ RunEffect(r, s)
    /\ UNCHANGED <<session, environ, pc, sends, frame, loading>>

\* ------------------------------------------------------------------- Next
Outcomes == {"ok"} \cup RemoteErrors

Next ==
    \/ \E ok \in BOOLEAN, loadOk \in BOOLEAN : initialize_session_state(ok, loadOk)
    \/ \E name \in EnvNames, loadOk \in BOOLEAN : SelectAssistant(name, loadOk)
    \/ \E text \in Texts, loadOk \in BOOLEAN : SubmitMessage(text, loadOk)
    \/ \E loadOk \in BOOLEAN, ok \in BOOLEAN : ClearChat(loadOk, ok)
    \/ \E loadOk \in BOOLEAN : Rerun(loadOk)
    \/ \E o \in Outcomes : AppendMessage(o)
    \/ \E o \in Outcomes : CreateRun(o)
    \/ TimedOut
    \/ \E d \in PollTicks, o \in Outcomes : Retrieve(d, o)
    \/ \E o \in Outcomes : ListMessages(o)
    \/ MainHandle
    \/ \E r \in 1..Len(runs), s \in RunOutcomes \cup {"in_progress"} : RunAdvance(r, s)

Spec == Init /\ [][Next]_vars

\* One call of send_message whose polls answer at once or slowly: the
\* specification of the claims about the deadline.
SubmitOnce(text, loadOk) == sends = 0 /\ SubmitMessage(text, loadOk)

NextTiming ==
    \/ \E ok \in BOOLEAN, loadOk \in BOOLEAN : initialize_session_state(ok, loadOk)
    \/ \E name \in EnvNames, loadOk \in BOOLEAN : SelectAssistant(name, loadOk)
    \/ \E text \in Texts, loadOk \in BOOLEAN : SubmitOnce(text, loadOk)
    \/ \E loadOk \in BOOLEAN, ok \in BOOLEAN : ClearChat(loadOk, ok)
    \/ \E loadOk \in BOOLEAN : Rerun(loadOk)
    \/ \E o \in Outcomes : AppendMessage(o)
    \/ \E o \in Outcomes : CreateRun(o)
    \/ TimedOut
    \/ \E d \in AnyPollTicks, o \in Outcomes : Retrieve(d, o)
    \/ \E o \in Outcomes : ListMessages(o)
    \/ MainHandle
    \/ \E r \in 1..Len(runs), s \in RunOutcomes \cup {"in_progress"} : RunAdvance(r, s)

SpecTiming == Init /\ [][NextTiming]_vars

\* The same call under the scheduling of the interpreter: send_message runs
\* its statements one after the other, each remote call returns, and the
\* sleep of the loop ends, so a step of send_message that can be taken is
\* taken. Nothing is assumed of the remote runs or of the user.
send_message ==
    \/ \E o \in Outcomes : AppendMessage(o)
    \/ \E o \in Outcomes : CreateRun(o)
    \/ TimedOut
    \/ \E d \in AnyPollTicks, o \in Outcomes : Retrieve(d, o)
    \/ \E o \in Outcomes : ListMessages(o)

SpecLive == SpecTiming /\ WF_vars(send_message)

\* The conversion alone: send_message has seen its run completed and lists a
\* thread that holds any raw messages of at most MaxRawLen entries.
Contents ==
    {<<>>, <<TextBlock("Hello")>>, <<TextBlock("Hi there!"), ImageBlock>>,
     <<ImageBlock>>, <<ImageBlock, TextBlock("Hi there!")>>}
RawMessages == [role : {"user", "assistant"}, content : Contents]
RawLists == UNION {[1..n -> RawMessages] : n \in 0..MaxRawLen}

InitProject ==
    /\ pc = "list"
    /\ thread_id = 1
    /\ threads \in {<<raw>> : raw \in RawLists}
    /\ runs = <<[thread_id |-> 1, assistant_id |-> AssistantIdOf.ASSISTANT_ID,
                 status |-> "completed"]>>
    /\ messages = <<>>
    /\ selected_assistant = assistant_options.Assistant1
    /\ environ = AssistantIdOf
    /\ assistant_details = [details |-> AssistantIdOf.ASSISTANT_ID, error |-> "none"]
    /\ pass_calls = <<"getAssistant">>
    /\ user_message = "Hello"
    /\ run = 1
    /\ status = "completed"
    /\ elapsed = 0
    /\ calls = <<"appendMessage", "createRun", "getRun">>
    /\ listing = <<>>
    /\ ret = <<>>
    /\ error = NoError
    /\ exc = "none"
    /\ before = <<>>
    /\ sends = 1

NextProject == \E o \in Outcomes : ListMessages(o)

SpecProject == InitProject /\ [][NextProject]_vars

\* ================================================================= claims
Last(q) == q[Len(q)]
Listed == \E i \in DOMAIN calls : calls[i] = "listMessages"
ActiveRuns(t) == {r \in DOMAIN runs : runs[r].thread_id = t /\ runs[r].status \in NonTerminal}
UserEntry == [role |-> "user", content |-> user_message]
ApologyEntry == [role |-> "assistant", content |-> apology]
Failed(kinds) == pc = "rerun" /\ user_message # "" /\ ErrorKind(error) \in kinds

\* C1: whenever send_message returns a transcript, its last two entries are
\* the user message of this call and then a non-empty assistant reply.
C1_LastTwoEntries ==
    (pc = "returned" /\ IsSuccess(ret)) =>
        /\ Len(ret) >= 2
        /\ ret[Len(ret) - 1] = UserEntry
        /\ Last(ret).role = "assistant"
        /\ Last(ret).content # ""

\* C2: send_message reports the timeout only after more than 30 s of polling
\* and at most one sleep and one poll later; the last status it saw was then
\* queued or in_progress; a call that saw only such statuses and no error
\* ends in the timeout; and one call makes at most 30 s / 0.5 s + 1 polls.
C2_TimeoutAtDeadline ==
    /\ Polls <= (TimeoutTicks \div SleepTicks) + 1
    /\ pc = "poll" => elapsed <= TimeoutTicks + SleepTicks + SlowPollTicks
    /\ ErrorKind(error) = "Timeout" =>
          /\ elapsed > TimeoutTicks
          /\ elapsed <= TimeoutTicks + SleepTicks + SlowPollTicks
          /\ status \in NonTerminal
          /\ ret = <<>>
    /\ (pc = "returned" /\ status \in NonTerminal /\ exc = "none") =>
          ErrorKind(error) = "Timeout"

\* C2 witness: the timeout after the largest number of polls, each of which
\* answered at once.
C2_Witness ==
    /\ pc = "returned"
    /\ ErrorKind(error) = "Timeout"
    /\ Polls = (TimeoutTicks \div SleepTicks) + 1
    /\ elapsed = TimeoutTicks + SleepTicks

\* C3: once a poll has seen failed, cancelled or expired, send_message has
\* returned the empty list with the "Run failed" error that carries this
\* status, the poll was its last remote call, it listed no messages and no
\* exception was involved.
C3_RunFailed ==
    status \in FailStatuses =>
        /\ pc \in {"returned", "rerun"}
        /\ error = StError("Run failed with status", status)
        /\ ErrorKind(error) = "RunFailed"
        /\ ErrorKind(error) \notin {"Timeout", "RemoteUnavailable"}
        /\ ret = <<>>
        /\ exc = "none"
        /\ Last(calls) = "getRun"
        /\ ~Listed
        /\ listing = <<>>

\* C3 witness: the run expired, seen by the second poll of the call.
C3_Witness == pc = "returned" /\ status = "expired" /\ Polls = 2

\* C4: no thread ever has two runs that are queued or in_progress.
C4_OneActiveRunPerThread ==
    \A t \in DOMAIN threads : Cardinality(ActiveRuns(t)) <= 1

\* C5: after a send that failed with RemoteUnavailable the displayed
\* transcript is what it was before the send.
C5_NoLocalMutation == Failed({"RemoteUnavailable"}) => messages = before

\* C6: after a send that failed with RunFailed or Timeout the displayed
\* transcript is the one before the send plus the user message and then the
\* apology.
C6_ApologyAppended ==
    Failed({"RunFailed", "Timeout"}) =>
        /\ Len(messages) = Len(before) + 2
        /\ SubSeq(messages, 1, Len(before)) = before
        /\ messages[Len(before) + 1] = UserEntry
        /\ messages[Len(before) + 2] = ApologyEntry

\* C6 witness: a timeout of a send made when the transcript was not empty.
C6_Witness == Failed({"Timeout"}) /\ before # <<>>

\* C7: after a successful send the displayed transcript is, entry by entry,
\* the list that messages.list returned, which is the remote thread as it was
\* at that call.
C7_TranscriptReplaced ==
    (pc = "rerun" /\ IsSuccess(ret)) =>
        /\ Len(messages) = Len(listing)
        /\ \A i \in DOMAIN listing :
              /\ messages[i].role = listing[i].role
              /\ messages[i].content = listing[i].content[1].text.value
        /\ Len(listing) <= Len(threads[thread_id])
        /\ listing = SubSeq(threads[thread_id], 1, Len(listing))

\* C7 witness: a success after a failed send: the transcript held an apology
\* before, holds none now, and shows the user message the failure left on the
\* remote thread.
C7_Witness ==
    /\ pc = "rerun" /\ IsSuccess(ret)
    /\ \E i \in DOMAIN before : before[i] = ApologyEntry
    /\ \A i \in DOMAIN messages : messages[i] # ApologyEntry
    /\ Cardinality({i \in DOMAIN messages : messages[i].role = "user"}) = sends

\* C8: once a poll has seen a status that the loop does not know,
\* send_message has returned the empty list with the "Unexpected run status"
\* error, the poll was its last remote call, no sleep followed it and no
\* messages were listed.
C8_UnknownStatus ==
    status \notin KnownStatuses \cup {"none"} =>
        /\ pc \in {"returned", "rerun"}
        /\ error = StError("Unexpected run status", status)
        /\ ErrorKind(error) = "RemoteUnavailable"
        /\ ret = <<>>
        /\ Last(calls) = "getRun"
        /\ ~Listed
        /\ elapsed = Polls * SlowPollTicks + (Polls - 1) * SleepTicks

\* C8 witness: the unknown status seen by the second poll.
C8_Witness == pc = "returned" /\ status \in UnknownStatuses /\ Polls = 2

\* C9: an error raised by a remote call of send_message never leaves it: the
\* call returns the empty list with the "Error in chat interaction" error,
\* and every empty return carries one of the three error kinds.
C9_ErrorsTranslated ==
    /\ pc # "raised"
    /\ exc # "none" =>
          /\ pc \in {"returned", "rerun"}
          /\ ret = <<>>
          /\ error = StError("Error in chat interaction", exc)
    /\ (pc = "returned" /\ ~IsSuccess(ret)) =>
          ErrorKind(error) \in {"Timeout", "RunFailed", "RemoteUnavailable"}

\* C9 witness: messages.list raised after the run was seen completed.
C9_Witness ==
    /\ pc = "returned"
    /\ exc = "APIStatusError"
    /\ Last(calls) = "listMessages"
    /\ status = "completed"

\* C10: a failed create_thread leaves the empty handle, and while the handle
\* is empty the script is never inside send_message and has made no remote
\* call for a message; no run is ever bound to the empty handle.
C10_NoSendWithoutThread ==
    /\ thread_id \in {EmptyHandle} \cup DOMAIN threads
    /\ thread_id = EmptyHandle => pc \in {"new", "idle", "rerun"} /\ calls = <<>>
    /\ \A r \in DOMAIN runs : runs[r].thread_id # EmptyHandle

\* C10 witness: a message submitted after a Clear Chat whose create_thread
\* failed.
C10_Witness ==
    /\ thread_id = EmptyHandle
    /\ pc = "idle"
    /\ user_message # ""
    /\ threads # <<>>

InSend == pc \in {"append", "createRun", "poll", "list", "returned", "raised"}
Unmapped(name) == selected_assistant = name /\ environ[name] = "None" /\ pc # "new"

\* C11: while "Assistant 2" is selected and ASSISTANT_ID2 is not set, every
\* pass ends with the "Assistant ID not found" error (ConfigMissing) and no
\* descriptor, and makes no remote call: no createThread, no getAssistant,
\* and none of send_message.
C11_ConfigMissingHalts ==
    Unmapped(assistant_options.Assistant2) =>
        /\ assistant_details.details = "None"
        /\ LoadErrorKind(assistant_details) = "ConfigMissing"
        /\ pass_calls = <<>>
        /\ calls = <<>>
        /\ pc = "idle"

\* C11 witness: a message submitted with the unmapped "Assistant 2" selected,
\* in a session that has a thread.
C11_Witness ==
    /\ Unmapped(assistant_options.Assistant2)
    /\ user_message # ""
    /\ thread_id # EmptyHandle

\* C12: a pass in which get_assistant_details returned None (missing mapping
\* or remote error) and a message was submitted ends without send_message:
\* no remote call of it, and the transcript is the one the pass started with.
C12_LoadFailureHalts ==
    (assistant_details.details = "None" /\ pc # "new") =>
        /\ pc = "idle"
        /\ calls = <<>>
        /\ user_message # "" => messages = before
        /\ LoadErrorKind(assistant_details) \in {"ConfigMissing", "RemoteUnavailable"}

\* C12 witness: assistants.retrieve raised in a pass with a submitted message,
\* a thread and a transcript that is not empty.
C12_Witness ==
    /\ LoadErrorKind(assistant_details) = "RemoteUnavailable"
    /\ user_message # ""
    /\ thread_id # EmptyHandle
    /\ messages # <<>>

\* C19: the script is inside send_message only in a pass that fetched the
\* descriptor of the selected assistant, and the run of the call is bound to
\* the id of the selected assistant.
C19_RunBoundToSelected ==
    /\ InSend =>
          /\ assistant_details.details # "None"
          /\ assistant_details.details = environ[selected_assistant]
    /\ run # 0 =>
          /\ InSend \/ pc = "rerun"
          /\ runs[run].assistant_id = environ[selected_assistant]
          /\ runs[run].assistant_id = assistant_details.details

\* C19 witness: a run bound to the second assistant after the selection
\* changed, while an earlier run is bound to the first.
C19_Witness ==
    /\ run = 2
    /\ selected_assistant = assistant_options.Assistant2
    /\ runs[1].assistant_id = AssistantIdOf.ASSISTANT_ID
    /\ runs[2].assistant_id = AssistantIdOf.ASSISTANT_ID2

ClearStep == pc = "idle" /\ pc' = "rerun"
UserCount(t) == Cardinality({i \in DOMAIN threads[t] : threads[t][i].role = "user"})
SendsGoToCurrent ==
    /\ Len(runs') > Len(runs) => Last(runs').thread_id = thread_id
    /\ \A t \in DOMAIN threads : UserCount(t)' > UserCount(t) => t = thread_id

\* C13 as stated: the handle changes only in the first pass and at a clear,
\* a clear empties the transcript and makes the handle a newly created
\* thread, and every send goes to the session's current thread.
C13_ClearGivesNewThread ==
    [][/\ thread_id' # thread_id => (pc = "new" \/ ClearStep)
       /\ ClearStep =>
             /\ messages' = <<>>
             /\ thread_id' \in DOMAIN threads' \ DOMAIN threads
       /\ SendsGoToCurrent]_vars

\* C13 amended: as above, but a clear whose create_thread fails leaves the
\* empty handle and no new thread; the handle never takes the value of a
\* thread that existed before the step, so no send reaches an abandoned
\* thread.
C13_HandleChangesOnlyOnClear ==
    [][/\ thread_id' # thread_id => (pc = "new" \/ ClearStep)
       /\ thread_id' # thread_id => thread_id' \notin DOMAIN threads
       /\ ClearStep =>
             /\ messages' = <<>>
             /\ \/ thread_id' \in DOMAIN threads' \ DOMAIN threads
                \/ thread_id' = EmptyHandle /\ threads' = threads
       /\ SendsGoToCurrent]_vars

\* C13 witness: after a send on the first thread and a clear, a send whose
\* message and run are on the second thread, the first thread untouched.
C13_Witness ==
    /\ thread_id = 2
    /\ run = 2
    /\ runs[1].thread_id = 1
    /\ runs[2].thread_id = 2
    /\ UserCount(1) = 1
    /\ UserCount(2) = 1

CallCount(op) == Cardinality({i \in DOMAIN calls : calls[i] = op})
TotalUserMessages ==
    Cardinality({p \in (DOMAIN threads) \X (1..(2 * MaxSends)) :
                    /\ p[2] \in DOMAIN threads[p[1]]
                    /\ threads[p[1]][p[2]].role = "user"})

\* C14: one submitted message makes at most one messages.create and one
\* runs.create, whatever the outcome: the remote threads hold no more user
\* messages and no more runs than messages were submitted to send_message.
C14_NoAutomaticRetry ==
    /\ CallCount("appendMessage") <= 1
    /\ CallCount("createRun") <= 1
    /\ Len(runs) <= sends
    /\ TotalUserMessages <= sends

\* C14 witness: the second of two sends timed out like the first; each made
\* one message and one run.
C14_Witness ==
    /\ pc = "rerun"
    /\ ErrorKind(error) = "Timeout"
    /\ \E i \in DOMAIN before : before[i] = ApologyEntry
    /\ CallCount("appendMessage") = 1
    /\ CallCount("createRun") = 1
    /\ sends = 2 /\ Len(runs) = 2 /\ TotalUserMessages = 2

HasText(c) == \E j \in DOMAIN c : c[j].type = "text"
FirstText(c) ==
    IF HasText(c)
      THEN c[CHOOSE j \in DOMAIN c :
                 c[j].type = "text" /\ \A k \in 1..(j - 1) : c[k].type # "text"].text.value
      ELSE ""

Issued == calls' # calls /\ calls' # <<>>

\* C16: in one send_message call the remote calls come in the order
\* appendMessage, createRun, getRun polls, at most one listMessages; a call is
\* issued only when the call before it did not raise, createRun only right
\* after the append, listMessages only right after a poll that read the status
\* completed, and nothing after listMessages.
C16_CallOrder ==
    [][Issued =>
          /\ calls' = Append(calls, Last(calls'))
          /\ exc = "none"
          /\ Last(calls') = "appendMessage" => calls = <<>>
          /\ Last(calls') = "createRun" =>
                /\ calls = <<"appendMessage">>
                /\ \E i \in DOMAIN threads[thread_id] :
                      threads[thread_id][i] = RawMessage("user", user_message)
          /\ Last(calls') = "getRun" => Last(calls) \in {"createRun", "getRun"}
          /\ Last(calls') = "listMessages" =>
                /\ Last(calls) = "getRun"
                /\ status = "completed"
                /\ runs[run].status = "completed"]_vars

\* C16 witness: a call that appended, created the run, polled twice and listed.
C16_Witness ==
    /\ calls = <<"appendMessage", "createRun", "getRun", "getRun", "listMessages">>
    /\ pc = "returned"
    /\ exc = "none"

\* the step by which send_message gives up waiting
TimeoutStep == pc = "poll" /\ pc' = "returned" /\ error'.text = "Request timed out"

\* C17: the step by which send_message fails with Timeout makes no remote
\* call and changes neither the threads nor the runs: the user message of the
\* call is on the thread, and the run of the call keeps the status it had,
\* which is the non-terminal status last read or a later one.
C17_TimeoutLeavesRemote ==
    [][TimeoutStep =>
          /\ threads' = threads
          /\ runs' = runs
          /\ calls' = calls
          /\ \E i \in DOMAIN threads'[thread_id] :
                threads'[thread_id][i] = RawMessage("user", user_message)
          /\ runs'[run].thread_id = thread_id
          /\ status \in NonTerminal]_vars

\* C17 witness: after the Timeout the run, which was left queued or in
\* progress, has completed and its reply is the last message of the thread,
\* after the user message; the session shows the apology.
C17_Witness ==
    /\ error.text = "Request timed out"
    /\ pc = "rerun"
    /\ sends = 1
    /\ status \in NonTerminal
    /\ runs[run].status = "completed"
    /\ Len(threads[thread_id]) = 2
    /\ threads[thread_id][1] = RawMessage("user", user_message)
    /\ threads[thread_id][2].role = "assistant"
    /\ Last(messages) = ApologyEntry

Running == pc \in {"append", "createRun", "poll", "list"}
MaxPolls == TimeoutTicks \div SleepTicks + 1

\* C18: every send_message call returns, with a transcript or with [] after
\* an error, whatever statuses the remote reports: each poll that stays in the
\* loop moves the clock forward, the loop is entered only up to the deadline,
\* so a call makes at most MaxPolls polls and is never in the loop later than
\* the deadline plus one poll and one sleep.
C18_SendReturns ==
    /\ [](pc = "poll" =>
             /\ elapsed <= TimeoutTicks + SlowPollTicks + SleepTicks
             /\ Polls <= MaxPolls)
    /\ [][(pc = "poll" /\ pc' = "poll" /\ calls' # calls) => elapsed' > elapsed]_vars
    /\ (Running ~> (pc = "returned"))

\* C18 witness: a call that returned by the deadline after the most polls a
\* call can make, all answered at once with a non-terminal status.
C18_Witness ==
    /\ pc = "returned"
    /\ error.text = "Request timed out"
    /\ Polls = MaxPolls
    /\ elapsed = TimeoutTicks + SleepTicks

====
